---- MODULE Spec2Model ----
(***************************************************************************)
(* Model of package supervisor of simple-sqsd: the Supervisor's lifecycle  *)
(* (Start / Shutdown / Wait), the worker loop (receive, dispatch, delete)  *)
(* and the request signing of httpRequest.                                 *)
(*                                                                         *)
(* Goroutines are modelled at the granularity of their blocking points and *)
(* of their accesses to shared memory.  The callers of the public API are  *)
(* the threads of Threads; the workers are the goroutines spawned by Start.*)
(* The SQS service and the HTTP endpoint are the environment: every answer *)
(* they can give is a nondeterministic choice.                             *)
(***************************************************************************)
EXTENDS Integers, Sequences, FiniteSets, TLC

\* ------------------------------------------------------------------ bounds
\* Largest numWorkers passed to Start.
MaxWorkers == 2
\* Number of non-empty receive answers the queue gives in one run.
MaxCycles == 2

\* ------------------------------------------------------------- constants
\* net/http: StatusOK and StatusIMUsed, the bounds of httpRequest's test.
StatusOK == 200
StatusIMUsed == 226

Msgs == {1, 2}
\* "No Start call has run the function yet", where a numWorkers is expected.
NoN == 0 - 1

\* Strings are sequences of characters.
Str(c) == <<c>>
Empty == <<>>

VARIABLES
  config,        \* Supervisor.workerConfig, per Supervisor
  endpoint,      \* the answers the HTTP endpoint can give (environment)
  signature,     \* the package-level `var signature string`
  startOnce,     \* Supervisor.startOnce: "new", "busy" (f running), "done"
  wg,            \* Supervisor.wg: the WaitGroup's counter
  mu,            \* Supervisor.Mutex: locked or not
  shutdown,      \* Supervisor.shutdown as stored by Shutdown
  shutdownPub,   \* Supervisor.shutdown as every goroutine is sure to read it
  wk,            \* the workers: position in worker() and its locals
  queue,         \* the ids of the messages still in the queue
  cycles,        \* number of non-empty receive answers so far
  call,          \* the API call each thread is in
  hist           \* history of the API calls, per Supervisor

vars == <<config, endpoint, signature, startOnce, wg, mu, shutdown,
          shutdownPub, wk, queue, cycles, call, hist>>

\* The Supervisors constructed in the process and the threads that call them.
Sups == DOMAIN config
Threads == DOMAIN call

\* ------------------------------------------------------- pure functions
\* strings.TrimRight(url, "/"): url without its trailing "/" characters.
RECURSIVE TrimRight(_)
TrimRight(url) ==
  IF url # Empty /\ url[Len(url)] = "/"
  THEN TrimRight(SubSeq(url, 1, Len(url) - 1))
  ELSE url

\* The value Start stores in `signature` for a target URL.
SigPrefix(url) == Str("POST ") \o TrimRight(url) \o Str("\n")

\* getMac: hex(HMAC-SHA256(secretKey, signature)).  The keyed hash is kept
\* uninterpreted: a tag is determined by, and determines, key and message.
getMac(sig, secretKey) == <<"hex-hmac-sha256", secretKey, sig>>

\* The value a racing load of `signature` yields when it overlaps a store
\* of another value: the pointer of one string with the length of the other.
Torn == Str("<torn>")

\* StatusSuccess with the conventional upper bound of the 2xx class.
StatusSuccess_2xx(code) == ~(code < StatusOK \/ code > 299)

\* httpRequest's test of the status code: nil error (TRUE) or an error.
StatusSuccess(code) == ~(code < StatusOK \/ code > StatusIMUsed)

\* Line 153-164: the answer of httpClient.Do as httpRequest maps it to its
\* return value: TRUE when httpRequest returns nil.
HttpOk(res) == ~res.err /\ StatusSuccess(res.StatusCode)

NoHeader == Str("<none>")

\* Request with the Content-Type header set whatever the configuration, in
\* place of the test of line 149.
Request_ctypeAlways(cfg, body, sig) ==
  [method |-> "POST",
   url    |-> cfg.HTTPURL,
   body   |-> body,
   mac    |-> IF Len(cfg.SecretKey) > 0
              THEN getMac(sig \o body, cfg.SecretKey) ELSE NoHeader,
   ctype  |-> cfg.HTTPContentType]

\* The request httpRequest builds for a message body, given the value its
\* load of `signature` yielded.
Request(cfg, body, sig) ==
  [method |-> "POST",
   url    |-> cfg.HTTPURL,
   body   |-> body,
   mac    |-> IF Len(cfg.SecretKey) > 0
              THEN getMac(sig \o body, cfg.SecretKey) ELSE NoHeader,
   ctype  |-> IF Len(cfg.HTTPContentType) > 0
              THEN cfg.HTTPContentType ELSE NoHeader]

\* Line 139-142: no request is built, httpRequest returns an error.
NoRequest ==
  [method |-> "<none>", url |-> Empty, body |-> Empty, mac |-> NoHeader, ctype |-> NoHeader]
NewRequestError == [err |-> TRUE, StatusCode |-> 0 - 1]

\* ------------------------------------------------------------ environment
\* The body of a queue message (messages 1 and 3 carry the same body).
BodyOf(m) == <<"payload", m % 2>>

\* A message as ReceiveMessage returns it in the c-th non-empty answer: a
\* receipt handle is issued anew by every receive.
Message(m, c) == [MessageId |-> m, Body |-> BodyOf(m), ReceiptHandle |-> <<"rh", m, c>>]

\* The sequences of distinct messages of `q`, of length 1..max.
RECURSIVE SeqsOf(_, _)
SeqsOf(q, max) ==
  IF max = 0 \/ q = {} THEN {Empty}
  ELSE {Empty} \cup UNION {{<<m>> \o r : r \in SeqsOf(q \ {m}, max - 1)} : m \in q}
Batches(q, max) == SeqsOf(q, max) \ {Empty}

\* Status codes the endpoint answers with, and the transport error.
Codes == {199, 200, 204, 226, 227, 500}
TransportError == [err |-> TRUE, StatusCode |-> 0]
Response(code) == [err |-> FALSE, StatusCode |-> code]
Outcomes == {Response(c) : c \in Codes} \cup {TransportError}

\* http.NewRequest fails on a URL that does not parse: one with a ":" first.
URLValid(url) == url = Empty \/ url[1] # ":"

ConfigSigned ==
  [QueueMaxMessages |-> 2, SecretKey |-> Str("k"),
   HTTPURL |-> <<"h", "/", "p", "/", "/">>, HTTPContentType |-> Str("json")]
ConfigPlain ==
  [QueueMaxMessages |-> 2, SecretKey |-> Empty,
   HTTPURL |-> <<"h", "/", "q">>, HTTPContentType |-> Empty]
ConfigOther ==
  [QueueMaxMessages |-> 1, SecretKey |-> Str("k"),
   HTTPURL |-> <<"g", "/">>, HTTPContentType |-> Empty]
ConfigBadURL ==
  [QueueMaxMessages |-> 2, SecretKey |-> Str("k"),
   HTTPURL |-> <<":", "/">>, HTTPContentType |-> Empty]

\* ------------------------------------------------------------------ state
Idle == [op |-> "idle", s |-> "A", n |-> 0, pc |-> "-", i |-> 0, sd |-> FALSE, st |-> FALSE]

\* A worker that was not spawned yet; the locals of worker() of a cycle.
FreshCycle ==
  [recv |-> "none", output |-> Empty, sent |-> Empty, deleteEntries |-> Empty,
   dels |-> Empty]
Unspawned == [pc |-> "unspawned"] @@ FreshCycle

NoHist == [firstN |-> NoN, spawnCalls |-> 0, graceful |-> FALSE]

\* NewSupervisor: the state after the construction of the Supervisors of
\* `cfgs`, called by the threads `ts` with numWorkers up to the size of
\* `pool`, with the messages `q` in the queue and an endpoint that answers
\* with the outcomes `ep`.
Constructed(cfgs, ts, pool, q, ep) ==
  /\ config = cfgs
  /\ endpoint = ep
  /\ signature = Empty
  /\ startOnce = [s \in DOMAIN cfgs |-> "new"]
  /\ wg = [s \in DOMAIN cfgs |-> 0]
  /\ mu = [s \in DOMAIN cfgs |-> FALSE]
  /\ shutdown = [s \in DOMAIN cfgs |-> FALSE]
  /\ shutdownPub = [s \in DOMAIN cfgs |-> FALSE]
  /\ wk = [s \in DOMAIN cfgs |-> [w \in pool |-> Unspawned]]
  /\ queue = q
  /\ cycles = 0
  /\ call = [t \in ts |-> Idle]
  /\ hist = [s \in DOMAIN cfgs |-> NoHist]

\* One Supervisor used by two threads: with an empty queue and numWorkers up
\* to MaxWorkers, or with a message in the queue and numWorkers up to 1.
InitLifecycle ==
  \/ Constructed([A |-> ConfigSigned], {"t1", "t2"}, 1 .. MaxWorkers, {},
                 {Response(200)})
  \/ Constructed([A |-> ConfigSigned], {"t1", "t2"}, {1}, {1},
                 {Response(200), Response(500)})

\* One Supervisor used by one thread; the endpoint gives two of its answers.
InitCycle ==
  \E e \in {<<ConfigSigned, {Response(199), Response(200)}>>,
             <<ConfigPlain, {Response(226), Response(227)}>>,
             <<ConfigSigned, {Response(204), Response(500)}>>,
             <<ConfigPlain, {Response(200), TransportError}>>,
             <<ConfigBadURL, {Response(200)}>>} :
    Constructed([A |-> e[1]], {"t1"}, {1, 2}, Msgs, e[2])

\* Two Supervisors with different target URLs in one process.
InitSigning ==
  \E cfgs \in {[A |-> ConfigSigned, B |-> ConfigOther],
               [A |-> ConfigPlain, B |-> ConfigSigned]} :
    Constructed(cfgs, {"t1"}, {1}, {1}, {Response(200)})

Init == InitLifecycle \/ InitCycle \/ InitSigning

\* The goroutines Start can spawn, those it did, those that have not returned.
WIds(s) == DOMAIN wk[s]
Spawned(s) == {w \in WIds(s) : wk[s][w].pc # "unspawned"}
Running(s) == {w \in WIds(s) : wk[s][w].pc \notin {"unspawned", "done"}}

\* ------------------------------------------------------- racing accesses
\* The stores to `signature` in progress: the Start calls that entered and
\* have not completed line 60.
SigStores ==
  {SigPrefix(config[call[t].s].HTTPURL) :
     t \in {u \in Threads : call[u].op = "Start" /\ call[u].pc = "sig"}}

\* What an unsynchronised load of `signature` (line 145) can yield: the value
\* stored last, or, when it overlaps a store of a different string, that
\* string or a mix of the two.
SignatureReads ==
  {signature} \cup SigStores \cup (IF SigStores \ {signature} # {} THEN {Torn} ELSE {})

\* What the unsynchronised load of s.shutdown (line 87) can yield: the value
\* stored, or the one before it while the storing Shutdown has not unlocked.
ShutdownReads(s) == {shutdown[s], shutdownPub[s]}

\* ---------------------------------------------------------------- Start
\* A thread calls s.Start(numWorkers).
CallStart(t, s, n) ==
  /\ call[t].op = "idle"
  /\ n <= Cardinality(WIds(s))
  /\ call' = [call EXCEPT ![t] = [Idle EXCEPT !.op = "Start", !.s = s, !.n = n, !.pc = "sig"]]
  /\ UNCHANGED <<config, endpoint, signature, startOnce, wg, mu, shutdown,
                 shutdownPub, wk, queue, cycles, hist>>

\* Line 60: the store to the package-level signature.
StartSig(t) ==
  /\ call[t].op = "Start" /\ call[t].pc = "sig"
  /\ signature' = SigPrefix(config[call[t].s].HTTPURL)
  /\ call' = [call EXCEPT ![t].pc = "once"]
  /\ UNCHANGED <<config, endpoint, startOnce, wg, mu, shutdown, shutdownPub,
                 wk, queue, cycles, hist>>

\* StartOnce without the Once: every call runs the function.
StartOnce_everyCall(t) ==
  LET s == call[t].s IN
  /\ call[t].op = "Start" /\ call[t].pc = "once"
  /\ startOnce[s] # "busy"
  /\ startOnce' = [startOnce EXCEPT ![s] = "busy"]
  /\ wg' = [wg EXCEPT ![s] = @ + call[t].n]
  /\ hist' = [hist EXCEPT ![s].firstN = IF @ = NoN THEN call[t].n ELSE @]
  /\ call' = [call EXCEPT ![t].pc = "go"]
  /\ UNCHANGED <<config, endpoint, signature, mu, shutdown, shutdownPub, wk,
                 queue, cycles>>

\* StartOnce without the wg.Add of line 62.
StartOnce_noAdd(t) ==
  LET s == call[t].s IN
  /\ call[t].op = "Start" /\ call[t].pc = "once"
  /\ startOnce[s] # "busy"
  /\ IF startOnce[s] = "done"
     THEN /\ call' = [call EXCEPT ![t] = Idle]
          /\ UNCHANGED <<startOnce, hist>>
     ELSE /\ startOnce' = [startOnce EXCEPT ![s] = "busy"]
          /\ hist' = [hist EXCEPT ![s].firstN = IF @ = NoN THEN call[t].n ELSE @]
          /\ call' = [call EXCEPT ![t].pc = "go"]
  /\ UNCHANGED <<config, endpoint, signature, wg, mu, shutdown, shutdownPub, wk,
                 queue, cycles>>

\* StartOnce with wg.Add(1) for wg.Add(numWorkers).
StartOnce_addOne(t) ==
  LET s == call[t].s IN
  /\ call[t].op = "Start" /\ call[t].pc = "once"
  /\ startOnce[s] # "busy"
  /\ IF startOnce[s] = "done"
     THEN /\ call' = [call EXCEPT ![t] = Idle]
          /\ UNCHANGED <<startOnce, wg, hist>>
     ELSE /\ startOnce' = [startOnce EXCEPT ![s] = "busy"]
          /\ wg' = [wg EXCEPT ![s] = @ + 1]
          /\ hist' = [hist EXCEPT ![s].firstN = IF @ = NoN THEN call[t].n ELSE @]
          /\ call' = [call EXCEPT ![t].pc = "go"]
  /\ UNCHANGED <<config, endpoint, signature, mu, shutdown, shutdownPub, wk,
                 queue, cycles>>

\* Line 61-62: startOnce.Do.  A call that finds the Once done returns; one
\* that finds it new runs the function, beginning with wg.Add(numWorkers);
\* one that finds the function running waits for it.
StartOnce(t) ==
  LET s == call[t].s IN
  /\ call[t].op = "Start" /\ call[t].pc = "once"
  /\ startOnce[s] # "busy"
  /\ IF startOnce[s] = "done"
     THEN /\ call' = [call EXCEPT ![t] = Idle]
          /\ UNCHANGED <<startOnce, wg, hist>>
     ELSE /\ startOnce' = [startOnce EXCEPT ![s] = "busy"]
          /\ wg' = [wg EXCEPT ![s] = @ + call[t].n]
          /\ hist' = [hist EXCEPT ![s].firstN = IF @ = NoN THEN call[t].n ELSE @]
          /\ call' = [call EXCEPT ![t].pc = "go"]
  /\ UNCHANGED <<config, endpoint, signature, mu, shutdown, shutdownPub, wk,
                 queue, cycles>>

\* StartGo with a worker that makes its first ReceiveMessage call before any
\* load of s.shutdown, as if the test of line 87 stood at the end of the loop.
StartGo_receiveFirst(t) ==
  LET s == call[t].s IN
  /\ call[t].op = "Start" /\ call[t].pc = "go"
  /\ call[t].i < call[t].n
  /\ WIds(s) \ Spawned(s) # {}
  /\ LET w == CHOOSE x \in WIds(s) \ Spawned(s) : \A y \in WIds(s) \ Spawned(s) : x <= y IN
       wk' = [wk EXCEPT ![s][w].pc = "receive"]
  /\ hist' = [hist EXCEPT ![s].spawnCalls = IF call[t].i = 0 THEN @ + 1 ELSE @]
  /\ call' = [call EXCEPT ![t].i = @ + 1]
  /\ UNCHANGED <<config, endpoint, signature, startOnce, wg, mu, shutdown,
                 shutdownPub, queue, cycles>>

\* Line 64-66: one `go s.worker()` of the loop.
StartGo(t) ==
  LET s == call[t].s IN
  /\ call[t].op = "Start" /\ call[t].pc = "go"
  /\ call[t].i < call[t].n
  /\ WIds(s) \ Spawned(s) # {}
  /\ LET w == CHOOSE x \in WIds(s) \ Spawned(s) : \A y \in WIds(s) \ Spawned(s) : x <= y IN
       wk' = [wk EXCEPT ![s][w].pc = "check"]
  /\ hist' = [hist EXCEPT ![s].spawnCalls = IF call[t].i = 0 THEN @ + 1 ELSE @]
  /\ call' = [call EXCEPT ![t].i = @ + 1]
  /\ UNCHANGED <<config, endpoint, signature, startOnce, wg, mu, shutdown,
                 shutdownPub, queue, cycles>>

\* Line 67-68: the function ends, the Once is done, Start returns.
StartRet(t) ==
  LET s == call[t].s IN
  /\ call[t].op = "Start" /\ call[t].pc = "go"
  /\ call[t].i = call[t].n
  /\ startOnce' = [startOnce EXCEPT ![s] = "done"]
  /\ call' = [call EXCEPT ![t] = Idle]
  /\ UNCHANGED <<config, endpoint, signature, wg, mu, shutdown, shutdownPub,
                 wk, queue, cycles, hist>>

\* ------------------------------------------------------------- Shutdown
CallShutdown(t, s) ==
  /\ call[t].op = "idle"
  /\ call' = [call EXCEPT ![t] = [Idle EXCEPT !.op = "Shutdown", !.s = s, !.pc = "lock"]]
  /\ UNCHANGED <<config, endpoint, signature, startOnce, wg, mu, shutdown,
                 shutdownPub, wk, queue, cycles, hist>>

\* Line 76: s.Lock().
ShutdownLock(t) ==
  LET s == call[t].s IN
  /\ call[t].op = "Shutdown" /\ call[t].pc = "lock"
  /\ ~mu[s]
  /\ mu' = [mu EXCEPT ![s] = TRUE]
  /\ call' = [call EXCEPT ![t].pc = "set"]
  /\ UNCHANGED <<config, endpoint, signature, startOnce, wg, shutdown,
                 shutdownPub, wk, queue, cycles, hist>>

\* Line 78: s.shutdown = true.
ShutdownSet(t) ==
  LET s == call[t].s IN
  /\ call[t].op = "Shutdown" /\ call[t].pc = "set"
  /\ shutdown' = [shutdown EXCEPT ![s] = TRUE]
  /\ call' = [call EXCEPT ![t].pc = "unlock"]
  /\ UNCHANGED <<config, endpoint, signature, startOnce, wg, mu, shutdownPub,
                 wk, queue, cycles, hist>>

\* Line 75: the deferred s.Unlock(), and the return.  The unlock publishes
\* the store of line 78 to every goroutine.
ShutdownUnlock(t) ==
  LET s == call[t].s IN
  /\ call[t].op = "Shutdown" /\ call[t].pc = "unlock"
  /\ mu' = [mu EXCEPT ![s] = FALSE]
  /\ shutdownPub' = [shutdownPub EXCEPT ![s] = shutdown[s]]
  /\ call' = [call EXCEPT ![t] = Idle]
  /\ UNCHANGED <<config, endpoint, signature, startOnce, wg, shutdown, wk,
                 queue, cycles, hist>>

\* ----------------------------------------------------------------- Wait
\* A thread calls s.Wait(); the call remembers what had returned before it.
CallWait(t, s) ==
  /\ call[t].op = "idle"
  /\ call' = [call EXCEPT ![t] = [Idle EXCEPT !.op = "Wait", !.s = s, !.pc = "wait",
                                              !.sd = shutdownPub[s],
                                              !.st = (startOnce[s] = "done")]]
  /\ UNCHANGED <<config, endpoint, signature, startOnce, wg, mu, shutdown,
                 shutdownPub, wk, queue, cycles, hist>>

\* Line 71: wg.Wait() returns when the counter is zero.
WaitRet(t) ==
  LET s == call[t].s IN
  /\ call[t].op = "Wait" /\ call[t].pc = "wait"
  /\ wg[s] = 0
  /\ hist' = [hist EXCEPT ![s].graceful = @ \/ call[t].sd]
  /\ call' = [call EXCEPT ![t] = Idle]
  /\ UNCHANGED <<config, endpoint, signature, startOnce, wg, mu, shutdown,
                 shutdownPub, wk, queue, cycles>>

\* --------------------------------------------------------------- worker
\* Line 138-156: what one call of httpRequest for a body can send and get:
\* nothing when http.NewRequest fails, else the request built with the value
\* loaded from `signature` and an answer of the endpoint.
Attempts(s, body) ==
  IF ~URLValid(config[s].HTTPURL)
  THEN {[req |-> NoRequest, res |-> NewRequestError]}
  ELSE {[req |-> Request(config[s], body, sig), res |-> res] :
          sig \in SignatureReads, res \in endpoint}

\* Line 116-119: the delete entry of a delivered message.
Entry(msg) == [Id |-> msg.MessageId, ReceiptHandle |-> msg.ReceiptHandle]

\* Line 87-89: the shutdown check at the top of the loop.  A worker that
\* reads true returns (the deferred wg.Done() runs); one that reads false
\* starts a new cycle and calls ReceiveMessage (line 91-97).
WorkerCheck(s, w) ==
  /\ wk[s][w].pc = "check"
  /\ \E flag \in ShutdownReads(s) :
       IF flag
       THEN /\ wk' = [wk EXCEPT ![s][w] = [pc |-> "done"] @@ FreshCycle]
            /\ wg' = [wg EXCEPT ![s] = @ - 1]
       ELSE /\ wk' = [wk EXCEPT ![s][w] = [pc |-> "receive"] @@ FreshCycle]
            /\ UNCHANGED wg
  /\ UNCHANGED <<config, endpoint, signature, startOnce, mu, shutdown,
                 shutdownPub, queue, cycles, call, hist>>

\* WorkerReceive with a retry of the receive on an error, in place of the
\* `continue` of line 100 that goes back to the shutdown check.
WorkerReceive_retry(s, w) ==
  /\ wk[s][w].pc = "receive"
  /\ \/ /\ wk' = [wk EXCEPT ![s][w].recv = IF @ = "err" THEN "none" ELSE "err"]
        /\ UNCHANGED cycles
     \/ /\ cycles < MaxCycles
        /\ \E b \in Batches(queue, config[s].QueueMaxMessages) :
             wk' = [wk EXCEPT ![s][w].recv = "ok",
                              ![s][w].output = [k \in 1 .. Len(b) |-> Message(b[k], cycles + 1)],
                              ![s][w].deleteEntries = Empty,
                              ![s][w].pc = "dispatch"]
        /\ cycles' = cycles + 1
  /\ UNCHANGED <<config, endpoint, signature, startOnce, wg, mu, shutdown,
                 shutdownPub, queue, call, hist>>

\* WorkerReceive without the test of line 103: an empty answer goes on to
\* the delete call.
WorkerReceive_emptyGoesOn(s, w) ==
  /\ wk[s][w].pc = "receive"
  /\ \/ /\ wk' = [wk EXCEPT ![s][w].recv = "err", ![s][w].pc = "check"]
        /\ UNCHANGED cycles
     \/ /\ wk' = [wk EXCEPT ![s][w].recv = "empty", ![s][w].pc = "delete"]
        /\ UNCHANGED cycles
     \/ /\ cycles < MaxCycles
        /\ \E b \in Batches(queue, config[s].QueueMaxMessages) :
             wk' = [wk EXCEPT ![s][w].recv = "ok",
                              ![s][w].output = [k \in 1 .. Len(b) |-> Message(b[k], cycles + 1)],
                              ![s][w].deleteEntries = Empty,
                              ![s][w].pc = "dispatch"]
        /\ cycles' = cycles + 1
  /\ UNCHANGED <<config, endpoint, signature, startOnce, wg, mu, shutdown,
                 shutdownPub, queue, call, hist>>

\* WorkerReceive with a return from the worker on a receive error, in place
\* of the `continue` of line 100.
WorkerReceive_errExits(s, w) ==
  /\ wk[s][w].pc = "receive"
  /\ \/ /\ wk' = [wk EXCEPT ![s][w] = [pc |-> "done"] @@ FreshCycle]
        /\ wg' = [wg EXCEPT ![s] = @ - 1]
        /\ UNCHANGED cycles
     \/ /\ wk' = [wk EXCEPT ![s][w].recv = "empty", ![s][w].pc = "check"]
        /\ UNCHANGED <<cycles, wg>>
     \/ /\ cycles < MaxCycles
        /\ \E b \in Batches(queue, config[s].QueueMaxMessages) :
             wk' = [wk EXCEPT ![s][w].recv = "ok",
                              ![s][w].output = [k \in 1 .. Len(b) |-> Message(b[k], cycles + 1)],
                              ![s][w].deleteEntries = Empty,
                              ![s][w].pc = "dispatch"]
        /\ cycles' = cycles + 1
        /\ UNCHANGED wg
  /\ UNCHANGED <<config, endpoint, signature, startOnce, mu, shutdown,
                 shutdownPub, queue, call, hist>>

\* Line 97-107: ReceiveMessage returns: an error, no message, or a batch of
\* at most QueueMaxMessages messages of the queue.
WorkerReceive(s, w) ==
  /\ wk[s][w].pc = "receive"
  /\ \/ /\ wk' = [wk EXCEPT ![s][w].recv = "err", ![s][w].pc = "check"]
        /\ UNCHANGED cycles
     \/ /\ wk' = [wk EXCEPT ![s][w].recv = "empty", ![s][w].pc = "check"]
        /\ UNCHANGED cycles
     \/ /\ cycles < MaxCycles
        /\ \E b \in Batches(queue, config[s].QueueMaxMessages) :
             wk' = [wk EXCEPT ![s][w].recv = "ok",
                              ![s][w].output = [k \in 1 .. Len(b) |-> Message(b[k], cycles + 1)],
                              ![s][w].deleteEntries = Empty,
                              ![s][w].pc = "dispatch"]
        /\ cycles' = cycles + 1
  /\ UNCHANGED <<config, endpoint, signature, startOnce, wg, mu, shutdown,
                 shutdownPub, queue, call, hist>>

\* WorkerDispatch with a shutdown check inside the range loop: a worker that
\* reads the flag set returns in the middle of its batch.
WorkerDispatch_abortOnShutdown(s, w) ==
  LET me  == wk[s][w]
      k   == Len(me.sent) + 1
      msg == me.output[k]
  IN
  /\ me.pc = "dispatch"
  /\ \E flag \in ShutdownReads(s) :
       IF flag
       THEN /\ wk' = [wk EXCEPT ![s][w] = [pc |-> "done"] @@ FreshCycle]
            /\ wg' = [wg EXCEPT ![s] = @ - 1]
       ELSE /\ \E a \in Attempts(s, msg.Body) :
                 LET entries == IF HttpOk(a.res) THEN Append(me.deleteEntries, Entry(msg))
                                ELSE me.deleteEntries
                 IN wk' = [wk EXCEPT ![s][w].sent = Append(@, [id |-> msg.MessageId, req |-> a.req, res |-> a.res]),
                                     ![s][w].deleteEntries = entries,
                                     ![s][w].pc = IF k < Len(me.output) THEN "dispatch"
                                                  ELSE IF Len(entries) = 0 THEN "check"
                                                  ELSE "delete"]
            /\ UNCHANGED wg
  /\ UNCHANGED <<config, endpoint, signature, startOnce, mu, shutdown,
                 shutdownPub, queue, cycles, call, hist>>

\* WorkerDispatch without the `continue` of line 113: the entry is appended
\* whatever httpRequest returned.
WorkerDispatch_noContinue(s, w) ==
  LET me  == wk[s][w]
      k   == Len(me.sent) + 1
      msg == me.output[k]
  IN
  /\ me.pc = "dispatch"
  /\ \E a \in Attempts(s, msg.Body) :
       LET entries == Append(me.deleteEntries, Entry(msg))
       IN wk' = [wk EXCEPT ![s][w].sent = Append(@, [id |-> msg.MessageId, req |-> a.req, res |-> a.res]),
                           ![s][w].deleteEntries = entries,
                           ![s][w].pc = IF k < Len(me.output) THEN "dispatch"
                                        ELSE IF Len(entries) = 0 THEN "check"
                                        ELSE "delete"]
  /\ UNCHANGED <<config, endpoint, signature, startOnce, wg, mu, shutdown,
                 shutdownPub, queue, cycles, call, hist>>

\* WorkerDispatch without the test of line 122: the delete call is made with
\* whatever entries there are.
WorkerDispatch_noEmptyTest(s, w) ==
  LET me  == wk[s][w]
      k   == Len(me.sent) + 1
      msg == me.output[k]
  IN
  /\ me.pc = "dispatch"
  /\ \E a \in Attempts(s, msg.Body) :
       LET entries == IF HttpOk(a.res) THEN Append(me.deleteEntries, Entry(msg))
                      ELSE me.deleteEntries
       IN wk' = [wk EXCEPT ![s][w].sent = Append(@, [id |-> msg.MessageId, req |-> a.req, res |-> a.res]),
                           ![s][w].deleteEntries = entries,
                           ![s][w].pc = IF k < Len(me.output) THEN "dispatch" ELSE "delete"]
  /\ UNCHANGED <<config, endpoint, signature, startOnce, wg, mu, shutdown,
                 shutdownPub, queue, cycles, call, hist>>

\* WorkerDispatch with the entry of a delivered message put in front of the
\* entries collected so far, in place of the append of line 116.
WorkerDispatch_prepend(s, w) ==
  LET me  == wk[s][w]
      k   == Len(me.sent) + 1
      msg == me.output[k]
  IN
  /\ me.pc = "dispatch"
  /\ \E a \in Attempts(s, msg.Body) :
       LET entries == IF HttpOk(a.res) THEN <<Entry(msg)>> \o me.deleteEntries
                      ELSE me.deleteEntries
       IN wk' = [wk EXCEPT ![s][w].sent = Append(@, [id |-> msg.MessageId, req |-> a.req, res |-> a.res]),
                           ![s][w].deleteEntries = entries,
                           ![s][w].pc = IF k < Len(me.output) THEN "dispatch"
                                        ELSE IF Len(entries) = 0 THEN "check"
                                        ELSE "delete"]
  /\ UNCHANGED <<config, endpoint, signature, startOnce, wg, mu, shutdown,
                 shutdownPub, queue, cycles, call, hist>>

\* WorkerDispatch with the range loop left at the first httpRequest that
\* returns an error, in place of the `continue` of line 113.
WorkerDispatch_stopOnFailure(s, w) ==
  LET me  == wk[s][w]
      k   == Len(me.sent) + 1
      msg == me.output[k]
  IN
  /\ me.pc = "dispatch"
  /\ \E a \in Attempts(s, msg.Body) :
       LET entries == IF HttpOk(a.res) THEN Append(me.deleteEntries, Entry(msg))
                      ELSE me.deleteEntries
       IN wk' = [wk EXCEPT ![s][w].sent = Append(@, [id |-> msg.MessageId, req |-> a.req, res |-> a.res]),
                           ![s][w].deleteEntries = entries,
                           ![s][w].pc = IF k < Len(me.output) /\ HttpOk(a.res) THEN "dispatch"
                                        ELSE IF Len(entries) = 0 THEN "check"
                                        ELSE "delete"]
  /\ UNCHANGED <<config, endpoint, signature, startOnce, wg, mu, shutdown,
                 shutdownPub, queue, cycles, call, hist>>

\* Line 109-124: one iteration of the range loop: httpRequest for the next
\* message of the batch, and the append when it returned nil.  After the
\* last message, line 122 skips the delete call when there is no entry.
WorkerDispatch(s, w) ==
  LET me  == wk[s][w]
      k   == Len(me.sent) + 1
      msg == me.output[k]
  IN
  /\ me.pc = "dispatch"
  /\ \E a \in Attempts(s, msg.Body) :
       LET entries == IF HttpOk(a.res) THEN Append(me.deleteEntries, Entry(msg))
                      ELSE me.deleteEntries
       IN wk' = [wk EXCEPT ![s][w].sent = Append(@, [id |-> msg.MessageId, req |-> a.req, res |-> a.res]),
                           ![s][w].deleteEntries = entries,
                           ![s][w].pc = IF k < Len(me.output) THEN "dispatch"
                                        ELSE IF Len(entries) = 0 THEN "check"
                                        ELSE "delete"]
  /\ UNCHANGED <<config, endpoint, signature, startOnce, wg, mu, shutdown,
                 shutdownPub, queue, cycles, call, hist>>

\* WorkerDelete with the next ReceiveMessage call made right after the
\* delete-batch call, with no load of s.shutdown (line 87) between the two.
WorkerDelete_skipCheck(s, w) ==
  LET me  == wk[s][w]
      ids == {me.deleteEntries[k].Id : k \in 1 .. Len(me.deleteEntries)}
  IN
  /\ me.pc = "delete"
  /\ wk' = [wk EXCEPT ![s][w] = [pc |-> "receive"] @@ FreshCycle]
  /\ \E gone \in SUBSET ids : queue' = queue \ gone
  /\ UNCHANGED <<config, endpoint, signature, startOnce, wg, mu, shutdown,
                 shutdownPub, cycles, call, hist>>

\* WorkerDelete with one more DeleteMessageBatch call after a first that
\* returned an error, in place of the log of line 132-134.
WorkerDelete_retryOnce(s, w) ==
  LET me  == wk[s][w]
      ids == {me.deleteEntries[k].Id : k \in 1 .. Len(me.deleteEntries)}
  IN
  /\ me.pc = "delete"
  /\ \/ /\ wk' = [wk EXCEPT ![s][w].dels = Append(@, [Entries |-> me.deleteEntries, err |-> TRUE, removed |-> {}]),
                            ![s][w].pc = IF Len(me.dels) = 0 THEN "delete" ELSE "check"]
        /\ UNCHANGED queue
     \/ \E gone \in SUBSET ids :
          /\ wk' = [wk EXCEPT ![s][w].dels = Append(@, [Entries |-> me.deleteEntries, err |-> FALSE, removed |-> gone]),
                              ![s][w].pc = "check"]
          /\ queue' = queue \ gone
  /\ UNCHANGED <<config, endpoint, signature, startOnce, wg, mu, shutdown,
                 shutdownPub, cycles, call, hist>>

\* Line 126-135: DeleteMessageBatch returns: an error (logged), or an answer
\* that removed the entries it could (failed entries are not looked at).
WorkerDelete(s, w) ==
  LET me  == wk[s][w]
      ids == {me.deleteEntries[k].Id : k \in 1 .. Len(me.deleteEntries)}
  IN
  /\ me.pc = "delete"
  /\ \/ /\ wk' = [wk EXCEPT ![s][w].dels = Append(@, [Entries |-> me.deleteEntries, err |-> TRUE, removed |-> {}]),
                            ![s][w].pc = "check"]
        /\ UNCHANGED queue
     \/ \E gone \in SUBSET ids :
          /\ wk' = [wk EXCEPT ![s][w].dels = Append(@, [Entries |-> me.deleteEntries, err |-> FALSE, removed |-> gone]),
                              ![s][w].pc = "check"]
          /\ queue' = queue \ gone
  /\ UNCHANGED <<config, endpoint, signature, startOnce, wg, mu, shutdown,
                 shutdownPub, cycles, call, hist>>

\* ------------------------------------------------------------ next state
Next ==
  \/ \E t \in Threads, s \in Sups, n \in 0 .. MaxWorkers : CallStart(t, s, n)
  \/ \E t \in Threads : StartSig(t)
  \/ \E t \in Threads : StartOnce(t)
  \/ \E t \in Threads : StartGo(t)
  \/ \E t \in Threads : StartRet(t)
  \/ \E t \in Threads, s \in Sups : CallShutdown(t, s)
  \/ \E t \in Threads : ShutdownLock(t)
  \/ \E t \in Threads : ShutdownSet(t)
  \/ \E t \in Threads : ShutdownUnlock(t)
  \/ \E t \in Threads, s \in Sups : CallWait(t, s)
  \/ \E t \in Threads : WaitRet(t)
  \/ \E s \in Sups : \E w \in WIds(s) : WorkerCheck(s, w)
  \/ \E s \in Sups : \E w \in WIds(s) : WorkerReceive(s, w)
  \/ \E s \in Sups : \E w \in WIds(s) : WorkerDispatch(s, w)
  \/ \E s \in Sups : \E w \in WIds(s) : WorkerDelete(s, w)

Spec == Init /\ [][Next]_vars

\* The steps of a thread inside an API call, and of a worker.
ThreadStep(t) ==
  /\ t \in Threads
  /\ \/ StartSig(t) \/ StartOnce(t) \/ StartGo(t) \/ StartRet(t)
     \/ ShutdownSet(t) \/ ShutdownUnlock(t) \/ WaitRet(t)
WorkerStep(s, w) ==
  /\ s \in Sups /\ w \in WIds(s)
  /\ \/ WorkerCheck(s, w) \/ WorkerReceive(s, w)
     \/ WorkerDispatch(s, w) \/ WorkerDelete(s, w)

\* The one Supervisor of InitLifecycle under fair scheduling: a goroutine that
\* can take a step takes it, every call to the queue or the endpoint returns,
\* and a goroutine waiting for the mutex gets it (sync.Mutex hands the lock to
\* a starving waiter).  No thread has to call the API.
FairSpec ==
  /\ InitLifecycle /\ [][Next]_vars
  /\ \A t \in {"t1", "t2"} : WF_vars(ThreadStep(t)) /\ SF_vars(t \in Threads /\ ShutdownLock(t))
  /\ \A w \in 1 .. MaxWorkers : WF_vars(WorkerStep("A", w))

\* ================================================================ claims

\* C1: Start is idempotent over the Supervisor's lifetime.  In every state and
\* for every Supervisor: the workers were all spawned by one Start call, the
\* first whose function the Once ran; no worker exists before that call, at
\* most its numWorkers exist while it runs and exactly its numWorkers once it
\* has returned, whatever other Start calls were or are being made.
C1_StartOnce ==
  \A s \in Sups :
    /\ hist[s].spawnCalls <= 1
    /\ Cardinality({t \in Threads : call[t].op = "Start" /\ call[t].s = s /\ call[t].pc = "go"}) <= 1
    /\ startOnce[s] = "new" => Spawned(s) = {} /\ hist[s].firstN = NoN
    /\ startOnce[s] = "busy" => Cardinality(Spawned(s)) <= hist[s].firstN
    /\ startOnce[s] = "done" => Cardinality(Spawned(s)) = hist[s].firstN

\* Witness of C1: the first Start(1) has returned with its one worker spawned
\* and a second call, Start(0) or Start(2), has reached the Once.
C1_Witness ==
  \E s \in Sups, t \in Threads :
    /\ startOnce[s] = "done" /\ hist[s].firstN = 1 /\ Cardinality(Spawned(s)) = 1
    /\ call[t].op = "Start" /\ call[t].s = s /\ call[t].pc = "once" /\ call[t].n # 1

\* The success of a delivery as the specification states it: a response was
\* received and its status code is in 200..226.
Delivered(res) == ~res.err /\ res.StatusCode \in 200 .. 226

\* Of a worker's current (or just finished) cycle: the positions of its batch
\* already dispatched, those delivered with success, the ids of the messages
\* delivered with success, the ids its delete-batch calls submitted and
\* those they removed from the queue.
Dispatched(me) == 1 .. Len(me.sent)
DeliveredAt(me) == {k \in Dispatched(me) : Delivered(me.sent[k].res)}
DeliveredIds(me) == {me.output[k].MessageId : k \in DeliveredAt(me)}
DeliveredPairs(me) ==
  {[Id |-> me.output[k].MessageId, ReceiptHandle |-> me.output[k].ReceiptHandle] :
     k \in DeliveredAt(me)}
SubmittedIds(me) ==
  UNION {{me.dels[d].Entries[k].Id : k \in 1 .. Len(me.dels[d].Entries)} : d \in 1 .. Len(me.dels)}
RemovedIds(me) == UNION {me.dels[d].removed : d \in 1 .. Len(me.dels)}
CycleDone(me) == me.pc = "check" /\ me.recv = "ok"
Workers == UNION {{wk[s][w] : w \in WIds(s)} : s \in Sups}

\* C2 as stated: at the end of every poll cycle the messages deleted from the
\* queue in it are exactly those delivered with success in it.
C2_DeletedIffDelivered ==
  \A me \in Workers : CycleDone(me) => RemovedIds(me) = DeliveredIds(me)

\* C2, amended: a message is deleted only by a cycle that delivered it with
\* success, and at the end of every poll cycle the messages submitted for
\* deletion in it are exactly those delivered with success in it (they are
\* deleted when the delete-batch call accepts their entries).
C2_DeletedOnlyDelivered ==
  \A me \in Workers :
    /\ RemovedIds(me) \subseteq DeliveredIds(me)
    /\ CycleDone(me) => SubmittedIds(me) = DeliveredIds(me)
    /\ \A d \in 1 .. Len(me.dels) :
         ~me.dels[d].err /\ me.dels[d].removed = SubmittedIds(me)
           => DeliveredIds(me) \cap queue = {}

\* Witness of C2: a cycle ended in which one message was delivered and then
\* deleted, and another was not delivered and is still in the queue.
C2_Witness ==
  \E me \in Workers :
    /\ CycleDone(me) /\ Len(me.output) = 2 /\ Cardinality(DeliveredIds(me)) = 1
    /\ RemovedIds(me) = DeliveredIds(me)
    /\ \E k \in Dispatched(me) : ~Delivered(me.sent[k].res) /\ me.sent[k].id \in queue

\* C3: a cycle that delivered j >= 1 messages makes exactly one delete-batch
\* call, whose entries are the (id, receipt handle) pairs of these j messages
\* of its own batch; a cycle that delivered none makes no delete-batch call;
\* no delete-batch call has an empty entry list.
C3_OneDeleteBatch ==
  \A me \in Workers :
    /\ Len(me.dels) <= 1
    /\ \A d \in 1 .. Len(me.dels) :
         /\ Len(me.dels[d].Entries) > 0
         /\ Len(me.dels[d].Entries) = Cardinality(DeliveredPairs(me))
         /\ {me.dels[d].Entries[k] : k \in 1 .. Len(me.dels[d].Entries)} = DeliveredPairs(me)
    /\ CycleDone(me) => Len(me.dels) = (IF DeliveredAt(me) = {} THEN 0 ELSE 1)

\* Witness of C3: a cycle of two messages ended, one delivered: one call of
\* one entry; the receipt handle is that of this cycle, the second of the run.
C3_Witness ==
  \E me \in Workers :
    /\ CycleDone(me) /\ Len(me.output) = 2 /\ Cardinality(DeliveredAt(me)) = 1
    /\ Len(me.dels) = 1 /\ Len(me.dels[1].Entries) = 1
    /\ me.dels[1].Entries[1].ReceiptHandle[3] = 2

\* C5: a dispatched message has its entry in the delete list exactly when a
\* response was received with a status code in 200..226.
C5_SuccessRange ==
  \A me \in Workers : \A k \in Dispatched(me) :
    (\E e \in 1 .. Len(me.deleteEntries) :
        /\ me.deleteEntries[e].Id = me.output[k].MessageId
        /\ me.deleteEntries[e].ReceiptHandle = me.output[k].ReceiptHandle)
    <=> (~me.sent[k].res.err /\ me.sent[k].res.StatusCode >= 200
                             /\ me.sent[k].res.StatusCode <= 226)

\* Witness of C5: in one cycle a message answered 226 is in the delete list
\* and a message answered 227 is not.
C5_Witness ==
  \E me \in Workers : \E j, k \in Dispatched(me) :
    /\ me.sent[j].res = Response(226) /\ me.sent[k].res = Response(227)
    /\ Len(me.deleteEntries) = 1 /\ me.deleteEntries[1].Id = me.sent[j].id

\* C9: a receive that returned no message is followed in its cycle by no
\* dispatch and no delete-batch call: the worker is back at the shutdown check.
C9_EmptyReceive ==
  \A me \in Workers :
    me.recv = "empty" => me.pc = "check" /\ me.sent = Empty /\ me.dels = Empty

\* Witness of C9: a worker whose receive returned no message.
C9_Witness ==
  \E me \in Workers : me.recv = "empty" /\ me.pc = "check"

\* The positions of worker() at which a queue or HTTP call is in flight.
InCall == {"receive", "dispatch", "delete"}

\* C4: once a Wait that was called after a Shutdown had returned has itself
\* returned, every worker spawned has returned, and from then on no worker
\* is ever in a receive, HTTP or delete-batch call.
C4_GracefulStop ==
  [][\A s \in Sups :
       hist'[s].graceful =>
         /\ \A w \in WIds(s) : wk'[s][w].pc \notin InCall
         /\ ~hist[s].graceful =>
              \A w \in WIds(s) : wk'[s][w].pc \in {"unspawned", "done"}]_vars

\* Witness of C4: Shutdown then Wait have returned on a Supervisor whose
\* Start(2) had spawned two workers; both have returned.
C4_Witness ==
  \E s \in Sups :
    /\ hist[s].graceful /\ hist[s].firstN = 2
    /\ \A w \in WIds(s) : wk[s][w].pc = "done"

\* C6: no Wait call returns while a worker spawned by Start has not returned.
C6_WaitBlocks ==
  [][\A t \in Threads :
       call[t].op = "Wait" /\ call'[t].op # "Wait" =>
         \A w \in WIds(call[t].s) :
           /\ wk[call[t].s][w].pc \in {"unspawned", "done"}
           /\ wk'[call[t].s][w].pc \in {"unspawned", "done"}]_vars

\* Witness of C6: a Wait called after Start(2) had returned, before any
\* Shutdown had, can return: both workers have returned.
C6_Witness ==
  \E t \in Threads :
    /\ call[t].op = "Wait" /\ call[t].st /\ ~call[t].sd
    /\ wg[call[t].s] = 0 /\ Cardinality(Spawned(call[t].s)) = 2
    /\ Running(call[t].s) = {}

\* C7: shutdown does not interrupt a cycle.  A worker returns only from the
\* shutdown check at the top of the loop; whatever the flag is, a cycle that
\* received a batch comes back to the check with every message of the batch
\* dispatched and, when a message was delivered, its delete batch submitted.
C7_Cooperative ==
  [][\A s \in Sups : \A w \in WIds(s) :
       /\ wk'[s][w].pc = "done" /\ wk[s][w].pc # "done" => wk[s][w].pc = "check"
       /\ wk[s][w].pc \in InCall =>
            \/ wk'[s][w].pc \in InCall
            \/ /\ wk'[s][w].pc = "check"
               /\ Len(wk'[s][w].sent) = Len(wk'[s][w].output)
               /\ DeliveredAt(wk'[s][w]) # {} => Len(wk'[s][w].dels) = 1]_vars

\* Witness of C7: Shutdown has returned and a worker that was in its cycle
\* is back at the check, both messages dispatched and the delete call made.
C7_Witness ==
  \E s \in Sups : \E w \in WIds(s) :
    /\ shutdownPub[s] /\ CycleDone(wk[s][w])
    /\ Len(wk[s][w].sent) = 2 /\ Len(wk[s][w].dels) = 1

\* A Shutdown of s was called: it is in progress or has returned.
ShutdownCalled(s) ==
  shutdownPub[s] \/ \E t \in Threads : call[t].op = "Shutdown" /\ call[t].s = s

\* The liveness part of C8: every Shutdown call returns; once a Shutdown has
\* returned every worker returns; a Wait in progress when Shutdown was called
\* returns.
C8_Liveness ==
  /\ \A t \in {"t1", "t2"} : (call[t].op = "Shutdown") ~> (call[t].op # "Shutdown")
  /\ shutdownPub["A"] ~> (Running("A") = {})
  /\ \A t \in {"t1", "t2"} :
       (call[t].op = "Wait" /\ ShutdownCalled("A")) ~> (call[t].op # "Wait")

\* No Wait returns while a worker is in a call to the queue or the endpoint.
WaitNotPastCall ==
  \A t \in Threads :
    call[t].op = "Wait" /\ call'[t].op # "Wait"
      => \A w \in WIds(call[t].s) : wk[call[t].s][w].pc \notin InCall

\* C8 as stated: graceful stop terminates (C8_Liveness); a Wait called after
\* Start has returned does not return unless Shutdown was called, nor while
\* a worker is in an external call.
C8_GracefulTerminates ==
  /\ C8_Liveness
  /\ [][WaitNotPastCall]_vars
  /\ [][\A t \in Threads :
          call[t].op = "Wait" /\ call[t].st /\ call'[t].op # "Wait"
            => shutdown[call[t].s]]_vars

\* C8, amended: graceful stop terminates (C8_Liveness); a Wait called after
\* a Start that spawned at least one worker has returned does not return
\* unless Shutdown was called, nor while a worker is in an external call.
C8_GracefulTerminatesSpawned ==
  /\ C8_Liveness
  /\ [][WaitNotPastCall]_vars
  /\ [][\A t \in Threads :
          /\ call[t].op = "Wait" /\ call[t].st /\ call'[t].op # "Wait"
          /\ Spawned(call[t].s) # {}
          => shutdown[call[t].s]]_vars

\* Witness of C8: Shutdown and Wait were called concurrently after Start(1)
\* had returned; the worker has returned and the Wait can return.
C8_Witness ==
  \E t, u \in Threads :
    /\ call[t].op = "Wait" /\ call[t].st /\ ~call[t].sd
    /\ call[u].op = "Shutdown" /\ call[u].s = call[t].s
    /\ Spawned(call[t].s) # {} /\ Running(call[t].s) = {} /\ wg[call[t].s] = 0

\* The tag the specification asks for: the hex HMAC-SHA256, under the key, of
\* "POST " + rightTrim(url, "/") + "\n" + body.
Tag(url, body, key) == getMac(Str("POST ") \o TrimRight(url) \o Str("\n") \o body, key)

\* C10: every request sent carries the MAC header exactly when the secret key
\* of its Supervisor is not empty, and the header is then the tag of that
\* Supervisor's target URL, the message's body and the key.
C10_MacOfOwnUrl ==
  \A s \in Sups : \A w \in WIds(s) : \A k \in 1 .. Len(wk[s][w].sent) :
    LET req == wk[s][w].sent[k].req IN
    req # NoRequest =>
    /\ req.mac # NoHeader <=> config[s].SecretKey # Empty
    /\ req.mac # NoHeader =>
         req.mac = Tag(config[s].HTTPURL, wk[s][w].output[k].Body, config[s].SecretKey)

\* A step of a Start call made on a Supervisor whose Once has completed:
\* the store of line 60 or the return from startOnce.Do.
LaterStartStep(t) ==
  /\ call[t].op = "Start" /\ startOnce[call[t].s] = "done"
  /\ call'[t] # call[t]

\* C11: a Start call on a Supervisor after that Supervisor's first Start is a
\* no-op.  No step of such a call changes the workers, the join counter, the
\* shutdown flag, the worker configuration or the signing prefix the running
\* workers read.
C11_LaterStartNoOp ==
  [][\A t \in Threads :
       LaterStartStep(t) =>
         UNCHANGED <<wk, wg, shutdown, shutdownPub, config, startOnce, signature>>]_vars

\* C12: every request a worker sends is a POST to the target URL of its
\* Supervisor's configuration, its payload is the body of the message it is
\* sent for, and it carries the Content-Type header exactly when a content
\* type is configured, with the configured value.
C12_RequestShape ==
  \A s \in Sups : \A w \in WIds(s) : \A k \in 1 .. Len(wk[s][w].sent) :
    LET req == wk[s][w].sent[k].req IN
    req # NoRequest =>
    /\ req.method = "POST"
    /\ req.url = config[s].HTTPURL
    /\ req.body = wk[s][w].output[k].Body
    /\ req.ctype # NoHeader <=> config[s].HTTPContentType # Empty
    /\ req.ctype # NoHeader => req.ctype = config[s].HTTPContentType

\* Witness of C12: in the same state a worker of a Supervisor with a content
\* type has sent a request with the header and a worker of a Supervisor
\* without one has sent a request without it.
C12_Witness ==
  \E s, r \in Sups : \E w \in WIds(s), v \in WIds(r) :
    /\ config[s].HTTPContentType # Empty /\ config[r].HTTPContentType = Empty
    /\ Len(wk[s][w].sent) > 0 /\ wk[s][w].sent[1].req.ctype = config[s].HTTPContentType
    /\ Len(wk[r][v].sent) > 0 /\ wk[r][v].sent[1].req.ctype = NoHeader
    /\ wk[r][v].sent[1].req.method = "POST"

\* C13: a receive call that returns an error is followed by no dispatch and
\* no delete-batch call in its cycle: the step that receives the error puts
\* the worker at the shutdown check with nothing sent and nothing submitted.
\* A worker gets to a receive call only from the shutdown check, by a load of
\* the flag that yielded false, so the flag is read before every attempt.
C13_ReceiveError ==
  [][\A s \in Sups : \A w \in WIds(s) :
       LET a == wk[s][w]
           b == wk'[s][w]
       IN
       /\ (a.pc = "receive" /\ b.recv = "err") =>
            b.pc = "check" /\ b.sent = Empty /\ b.dels = Empty /\ b.deleteEntries = Empty
       /\ (a.pc = "receive" /\ a # b) => b.pc # "receive"
       /\ (b.pc = "receive" /\ a # b) => a.pc = "check" /\ FALSE \in ShutdownReads(s)]_vars

\* Witness of C13: a worker's receive call returned an error and the worker
\* is back at the shutdown check, while Shutdown has returned.
C13_Witness ==
  \E s \in Sups : \E w \in WIds(s) :
    /\ wk[s][w].recv = "err" /\ wk[s][w].pc = "check"
    /\ shutdownPub[s]

\* The delete entries of the messages delivered with success among the first
\* k dispatched of a worker's batch, in the order of the batch.
RECURSIVE DeliveredSeq(_, _)
DeliveredSeq(me, k) ==
  IF k = 0 THEN Empty
  ELSE IF Delivered(me.sent[k].res)
       THEN Append(DeliveredSeq(me, k - 1),
                   [Id |-> me.output[k].MessageId, ReceiptHandle |-> me.output[k].ReceiptHandle])
       ELSE DeliveredSeq(me, k - 1)

\* C14: within one worker and one poll cycle the k-th dispatch is that of the
\* k-th message of the batch; a delete-batch call is prepared or made only
\* when every message of the batch has been dispatched; the entries
\* collected, and those submitted, are the delivered messages in the order
\* of the batch.
C14_DispatchOrder ==
  \A me \in Workers :
    /\ Len(me.sent) <= Len(me.output)
    /\ \A k \in 1 .. Len(me.sent) : me.sent[k].id = me.output[k].MessageId
    /\ me.pc = "dispatch" => Len(me.sent) < Len(me.output) /\ me.dels = Empty
    /\ (me.pc = "delete" \/ me.dels # Empty) => Len(me.sent) = Len(me.output)
    /\ me.deleteEntries = DeliveredSeq(me, Len(me.sent))
    /\ \A j \in 1 .. Len(me.dels) : me.dels[j].Entries = DeliveredSeq(me, Len(me.output))

\* Witness of C14: a worker received message 2 before message 1, delivered
\* both and has made its delete-batch call with the two entries.
C14_Witness ==
  \E me \in Workers :
    /\ Len(me.output) = 2 /\ me.output[1].MessageId = 2
    /\ Len(me.dels) = 1 /\ Len(me.dels[1].Entries) = 2
    /\ me.dels[1].Entries[1].Id = 2

\* C15: a delete-batch call that returns an error is the only one of its
\* cycle and is followed by no retry and no new dispatch: the step in which
\* it returns puts the worker at the shutdown check with its dispatches as
\* they were and the queue as it was, the delivered messages of the cycle
\* that were in the queue still in it, and the worker's next step is the
\* shutdown check, which starts a cycle afresh or ends the worker.
C15_DeleteError ==
  [][\A s \in Sups : \A w \in WIds(s) :
       LET a == wk[s][w]
           b == wk'[s][w]
       IN
       /\ (a.pc = "delete" /\ a # b /\ b.dels[Len(b.dels)].err) =>
            /\ b.pc = "check" /\ Len(b.dels) = 1
            /\ b.sent = a.sent /\ b.deleteEntries = a.deleteEntries
            /\ queue' = queue
            /\ DeliveredIds(b) \cap queue \subseteq queue'
       /\ (a.pc = "check" /\ a.dels # Empty /\ a # b) =>
            b.pc \in {"receive", "done"} /\ b.dels = Empty /\ b.sent = Empty]_vars

\* Witness of C15: a delete-batch call of a worker returned an error; the
\* worker is at the shutdown check and the messages it delivered are in the
\* queue.
C15_Witness ==
  \E me \in Workers :
    /\ me.pc = "check" /\ Len(me.dels) = 1 /\ me.dels[1].err
    /\ DeliveredIds(me) # {} /\ DeliveredIds(me) \subseteq queue

\* C16: no error ends a worker.  A worker returns only by a step from the
\* shutdown check, with the shutdown flag of its Supervisor set; every step
\* it takes from a receive call, a dispatch or a delete-batch call, whatever
\* the call returned, leaves it in its loop.  A worker that has returned is
\* one whose Supervisor's flag is set.
C16_OnlyShutdownEnds ==
  [][\A s \in Sups : \A w \in WIds(s) :
       LET a == wk[s][w]
           b == wk'[s][w]
       IN
       /\ (a.pc # "done" /\ b.pc = "done") => a.pc = "check" /\ shutdown[s]
       /\ (a.pc \in InCall /\ a # b) => b.pc \in InCall \cup {"check"}
       /\ (a.pc = "check" /\ ~shutdown[s] /\ a # b) => b.pc = "receive"
       /\ b.pc = "done" => shutdown'[s]]_vars

\* Witness of C16: in its second cycle a worker had a transport error on its
\* first message and a delete-batch error for its second, and is at the
\* shutdown check, the flag not set.
C16_Witness ==
  \E s \in Sups : \E w \in WIds(s) :
    LET me == wk[s][w] IN
    /\ me.pc = "check" /\ ~shutdown[s] /\ cycles = 2
    /\ Len(me.sent) = 2 /\ me.sent[1].res = TransportError
    /\ Len(me.dels) = 1 /\ me.dels[1].err

\* A worker whose range loop over a received batch has ended.
LoopDone(me) == me.recv = "ok" /\ me.pc \in {"check", "delete"}

\* C17, as stated: every message of a received batch is sent to the endpoint
\* once in its cycle, whether the delivery succeeds or fails: when the loop
\* over the batch has ended there is one request sent for each message of the
\* batch, no message has two, and nothing is sent for a message that is not
\* of the batch.
C17_SentOnce ==
  \A me \in Workers :
    /\ LoopDone(me) => Len(me.sent) = Len(me.output)
    /\ \A k \in 1 .. Len(me.sent) :
         me.sent[k].id = me.output[k].MessageId /\ me.sent[k].req # NoRequest
    /\ \A j, k \in 1 .. Len(me.sent) : me.sent[j].id = me.sent[k].id => j = k

\* C17, amended: every message of a received batch has one delivery attempt
\* in its cycle, whatever the outcome of the attempts before it.  The attempt
\* sends one request with the message's body, or none when the request cannot
\* be built from the target URL; it is then a failure and the message is not
\* submitted for deletion.  Nothing is attempted for a message that is not of
\* the batch received in this cycle.
C17_AttemptedOnce ==
  \A s \in Sups : \A w \in WIds(s) :
    LET me == wk[s][w] IN
    /\ LoopDone(me) => Len(me.sent) = Len(me.output)
    /\ \A k \in 1 .. Len(me.sent) :
         /\ me.sent[k].id = me.output[k].MessageId
         /\ me.sent[k].req = NoRequest <=> ~URLValid(config[s].HTTPURL)
         /\ me.sent[k].req # NoRequest => me.sent[k].req.body = me.output[k].Body
         /\ me.sent[k].req = NoRequest =>
              me.sent[k].res.err /\ me.sent[k].id \notin SubmittedIds(me)
    /\ \A j, k \in 1 .. Len(me.sent) : me.sent[j].id = me.sent[k].id => j = k

\* Witness of C17: the loop over a batch of two messages has ended; the first
\* delivery got status 500 and the second message was sent and delivered.
C17_Witness ==
  \E me \in Workers :
    /\ LoopDone(me) /\ Len(me.output) = 2 /\ Len(me.sent) = 2
    /\ me.sent[1].req # NoRequest /\ me.sent[1].res = Response(500)
    /\ me.sent[2].req # NoRequest /\ Delivered(me.sent[2].res)

\* The place of a worker in its cycle, from the receive call to the return.
Rank(me) ==
  CASE me.pc = "receive"  -> 1
    [] me.pc = "dispatch" -> 2
    [] me.pc = "delete"   -> 3
    [] me.pc = "check"    -> 4
    [] me.pc = "done"     -> 5
    [] OTHER              -> 0

\* C18: once Shutdown has returned every step of a worker takes it forward in
\* its cycle and never back to a receive call: from the receive call it was
\* in to the dispatches of the one batch it got, one more at each step, to
\* the one delete-batch call, to the shutdown check, and from the check to
\* its return.  So a worker makes at most one receive call, that of a check
\* passed before the return of Shutdown, one batch of dispatches and one
\* delete-batch call after Shutdown has returned.
C18_BoundedResponse ==
  [][\A s \in Sups : \A w \in WIds(s) :
       LET a == wk[s][w]
           b == wk'[s][w]
       IN
       (shutdownPub[s] /\ a # b) =>
         /\ b.pc # "receive"
         /\ a.pc = "check" => b.pc = "done"
         /\ \/ Rank(b) > Rank(a)
            \/ /\ a.pc = "dispatch" /\ b.pc = "dispatch"
               /\ b.output = a.output /\ Len(b.sent) = Len(a.sent) + 1
         /\ Len(b.dels) <= 1]_vars

\* Witness of C18: Shutdown has returned; one worker has returned at its
\* check and another, past its check, has its receive call to make.
C18_Witness ==
  \E s \in Sups : \E w, v \in WIds(s) :
    /\ shutdownPub[s]
    /\ wk[s][w].pc = "done" /\ wk[s][v].pc = "receive"

\* C19: signing is isolated per Supervisor.  For two Supervisors of the
\* process with different target URLs, every MAC a worker of the one has
\* computed is the tag of its own Supervisor's URL and is not the tag of the
\* other's URL, whatever Start calls were made on the two.
C19_SigningIsolated ==
  \A s, r \in Sups :
    (s # r /\ config[s].HTTPURL # config[r].HTTPURL) =>
      \A w \in WIds(s) : \A k \in 1 .. Len(wk[s][w].sent) :
        LET req  == wk[s][w].sent[k].req
            body == wk[s][w].output[k].Body
        IN
        (req # NoRequest /\ req.mac # NoHeader) =>
          /\ req.mac = Tag(config[s].HTTPURL, body, config[s].SecretKey)
          /\ req.mac # Tag(config[r].HTTPURL, body, config[s].SecretKey)

\* C20: the shutdown flag, once set, is never cleared, and a Shutdown that
\* has returned stays so.  A worker spawned after Shutdown has returned, as
\* are all the workers of a first Start that follows it, starts at the
\* shutdown check and its first step from there is its return, with no
\* receive, HTTP or delete-batch call made.  The Start that ran the Once has
\* spawned its numWorkers workers when it returns, the flag set or not.
\* Under fair scheduling a Wait called after that Shutdown and that Start
\* have returned returns.
C20_ShutdownBeforeStart ==
  /\ [][\A s \in Sups : /\ shutdown[s] => shutdown'[s]
                        /\ shutdownPub[s] => shutdownPub'[s]]_vars
  /\ [][\A s \in Sups : \A w \in WIds(s) :
          LET a == wk[s][w]
              b == wk'[s][w]
          IN
          /\ (shutdownPub[s] /\ a.pc = "unspawned" /\ a # b) =>
               b = [pc |-> "check"] @@ FreshCycle
          /\ (shutdownPub[s] /\ a = [pc |-> "check"] @@ FreshCycle /\ a # b) =>
               b = [pc |-> "done"] @@ FreshCycle /\ queue' = queue /\ cycles' = cycles]_vars
  /\ [](\A s \in Sups : startOnce[s] = "done" => Cardinality(Spawned(s)) = hist[s].firstN)
  /\ \A t \in {"t1", "t2"} :
       (call[t].op = "Wait" /\ call[t].sd /\ call[t].st) ~> (call[t].op = "idle")

\* Witness of C20: Shutdown has returned, a Start(MaxWorkers) has spawned its
\* workers, all have returned with no batch ever received, and a Wait called
\* after the two can return.
C20_Witness ==
  \E t \in Threads :
    LET s == call[t].s IN
    /\ call[t].op = "Wait" /\ call[t].sd /\ call[t].st
    /\ shutdownPub[s] /\ hist[s].firstN = MaxWorkers
    /\ Cardinality(Spawned(s)) = MaxWorkers /\ Running(s) = {}
    /\ wg[s] = 0 /\ cycles = 0

====
